---- MODULE Spec2Model ----
(***************************************************************************)
(* State-machine model of the audit_project services and models:           *)
(*   app/services/compliance_service.py   (ComplianceService)              *)
(*   app/services/notification_service.py (NotificationService)            *)
(*   app/services/ai_service.py           (AIService)                      *)
(*   audit_project/app/models/audit.py    (AuditLog, log_audit_event)      *)
(*   audit_project/app/models/log.py      (Log)                            *)
(*                                                                         *)
(* Conventions.  Scores are kept in hundredths (0.85 is 85).  Time is an   *)
(* integer number of minutes.  A Python dict with optional keys is a       *)
(* function whose DOMAIN is the set of keys present.  An operator that     *)
(* models a function which may raise returns a record whose field exc is   *)
(* the exception type ("none" when it returned).  The variable last is the *)
(* observation of the most recent call: its arguments and what came back.  *)
(***************************************************************************)
EXTENDS Integers, Sequences, FiniteSets, TLC

\* ------------------------------------------------------------------ bounds
MaxTime == 2
MaxAge == 61
MaxFrameworks == 2
MaxSent == 1
MaxChannels == 2
MaxDocLen == 120
MaxRows == 3
MaxLogs == 3
MaxLimit == 2

\* --------------------------------------------------------------- variables
VARIABLES
    config,                 \* ComplianceService.config
    compliance_cache,       \* ComplianceService._compliance_cache
    notification_config,    \* NotificationService.config
    notification_queue,     \* NotificationService.notification_queue
    sent_notifications,     \* NotificationService.sent_notifications
    orm_audit_logs,         \* the committed rows of the ORM table audit_logs
    supabase_audit_logs,    \* the rows of the Supabase table audit_logs
    system_logs,            \* the committed rows of the ORM table system_logs
    now,                    \* datetime.now(), in minutes
    last                    \* the most recent call and its outcome

complianceVars == <<config, compliance_cache>>
notificationVars == <<notification_config, notification_queue, sent_notifications>>
auditVars == <<orm_audit_logs, supabase_audit_logs>>
logVars == <<system_logs>>

vars == <<complianceVars, notificationVars, auditVars, logVars, now, last>>

\* ------------------------------------------------------- Python primitives
EmptyDict == [k \in {} |-> 0]

\* dict.get(key, default)
DictGet(d, key, default) == IF key \in DOMAIN d THEN d[key] ELSE default

\* An Optional[List[str]] argument: None, or a list.
NoneArg == [isNone |-> TRUE, v |-> <<>>]
ListArg(s) == [isNone |-> FALSE, v |-> s]

\* ------------------------------------------------------------- frameworks
\* ComplianceStatus
COMPLIANT == "compliant"
NON_COMPLIANT == "non_compliant"
PARTIALLY_COMPLIANT == "partially_compliant"
PENDING_REVIEW == "pending_review"
NOT_APPLICABLE == "not_applicable"

\* ComplianceService._get_supported_frameworks
SupportedFrameworks ==
    {"SOX", "GDPR", "ISO27001", "HIPAA", "PCI_DSS", "SOC2", "NIST", "COBIT"}

\* A framework name the service does not support.
UnsupportedFramework == "FEDRAMP"

\* The framework names in Python's str ordering (the order sorted() uses).
FrameworkOrder ==
    <<"COBIT", "FEDRAMP", "GDPR", "HIPAA", "ISO27001", "NIST", "PCI_DSS",
      "SOC2", "SOX">>

FrameworkNames == {FrameworkOrder[i] : i \in 1..Len(FrameworkOrder)}

RECURSIVE IndexFrom(_, _, _)
IndexFrom(seq, x, i) == IF seq[i] = x THEN i ELSE IndexFrom(seq, x, i + 1)

StrRank(s) == IndexFrom(FrameworkOrder, s, 1)

\* str.__lt__ on framework names
StrLess(a, b) == StrRank(a) < StrRank(b)

RECURSIVE InsertSorted(_, _)
InsertSorted(s, x) ==
    IF s = <<>> THEN <<x>>
    ELSE IF StrLess(x, Head(s)) THEN <<x>> \o s
    ELSE <<Head(s)>> \o InsertSorted(Tail(s), x)

\* sorted(list): a stable ascending sort
RECURSIVE sorted(_)
sorted(s) ==
    IF s = <<>> THEN <<>>
    ELSE InsertSorted(sorted(SubSeq(s, 1, Len(s) - 1)), s[Len(s)])

\* ------------------------------------------------------- ComplianceService
\* ComplianceService._get_default_config
ComplianceDefaultConfig ==
    [strict_mode |-> FALSE, cache_results |-> TRUE, cache_ttl_minutes |-> 60,
     default_frameworks |-> <<"SOX", "GDPR", "ISO27001">>]

\* The config arguments the constructor is given.  EmptyDict stands for both
\* None and {} (both are falsy in "config or self._get_default_config()").
ComplianceConfigArgs ==
    {EmptyDict,
     [cache_results |-> FALSE],
     [cache_results |-> TRUE, cache_ttl_minutes |-> 1,
      default_frameworks |-> <<"GDPR">>]}

\* ComplianceService.__init__: self.config
ComplianceInitConfig(arg) ==
    IF DOMAIN arg = {} THEN ComplianceDefaultConfig ELSE arg

\* ComplianceService.cache_results
CacheResults(cfg) == DictGet(cfg, "cache_results", TRUE)

\* The cache attribute is None or a dict from cache key to cached item.
NoneCache == [isNone |-> TRUE, items |-> EmptyDict]
DictCache(items) == [isNone |-> FALSE, items |-> items]

\* ComplianceService.__init__: self._compliance_cache
ComplianceInitCache(cfg) ==
    IF CacheResults(cfg) THEN DictCache(EmptyDict)
    ELSE NoneCache

\* bool(self._compliance_cache): None and the empty dict are both falsy.
CacheTruthy(cache) == ~cache.isNone /\ DOMAIN cache.items # {}

\* The data argument: a dict, of which the model keeps the content and
\* whether json can serialise it (a dict holding a set or an object cannot be).
DataValues ==
    {[content |-> 1, json_serialisable |-> TRUE],
     [content |-> 2, json_serialisable |-> TRUE],
     [content |-> 1, json_serialisable |-> FALSE]}

\* json.dumps({'data': data, 'frameworks': fws}, sort_keys=True)
json_dumps(data, fws) ==
    IF data.json_serialisable
    THEN [exc |-> "none", val |-> [data |-> data.content, frameworks |-> fws]]
    ELSE [exc |-> "TypeError", val |-> EmptyDict]

\* hashlib.md5(text).hexdigest(): a function of the text; the digest is kept
\* as the text it digests (collisions of md5 are not modelled).
md5_hexdigest(text) == [md5 |-> text]

\* Mutant of _generate_cache_key: the frameworks are not sorted.
generate_cache_key_unsorted(data, frameworks) ==
    LET key_data == json_dumps(data, frameworks)
    IN  IF key_data.exc # "none" THEN key_data
        ELSE [exc |-> "none", val |-> md5_hexdigest(key_data.val)]

\* ComplianceService._generate_cache_key
generate_cache_key(data, frameworks) ==
    LET key_data == json_dumps(data, sorted(frameworks))
    IN  IF key_data.exc # "none" THEN key_data
        ELSE [exc |-> "none", val |-> md5_hexdigest(key_data.val)]

\* Mutant of _is_cache_valid: an item whose age equals the TTL is still valid.
is_cache_valid_inclusive(cached_item, cfg, t) ==
    IF DOMAIN cached_item = {} \/ "cached_at" \notin DOMAIN cached_item
    THEN FALSE
    ELSE t - cached_item["cached_at"] <= DictGet(cfg, "cache_ttl_minutes", 60)

\* ComplianceService._is_cache_valid; a cached item is a dict that may lack
\* the key cached_at.
is_cache_valid(cached_item, cfg, t) ==
    IF DOMAIN cached_item = {} \/ "cached_at" \notin DOMAIN cached_item
    THEN FALSE
    ELSE LET cache_ttl == DictGet(cfg, "cache_ttl_minutes", 60)
         IN  t - cached_item["cached_at"] < cache_ttl

\* ComplianceService._check_sox_compliance
check_sox_compliance(data) ==
    [framework |-> "SOX", status |-> COMPLIANT, score |-> 85, issues |-> <<>>,
     controls_checked |-> <<"financial_reporting", "internal_controls", "audit_trail">>]

\* Mutant of _check_gdpr_compliance: the score depends on the data checked.
check_gdpr_compliance_by_data(data) ==
    [framework |-> "GDPR", status |-> PARTIALLY_COMPLIANT,
     score |-> IF data.content = 1 THEN 75 ELSE 60,
     issues |-> <<[type |-> "data_retention", severity |-> "medium"]>>,
     controls_checked |-> <<"data_protection", "consent_management", "data_retention">>]

\* ComplianceService._check_gdpr_compliance
check_gdpr_compliance(data) ==
    [framework |-> "GDPR", status |-> PARTIALLY_COMPLIANT, score |-> 75,
     issues |-> <<[type |-> "data_retention", severity |-> "medium"]>>,
     controls_checked |-> <<"data_protection", "consent_management", "data_retention">>]

\* ComplianceService._check_iso27001_compliance
check_iso27001_compliance(data) ==
    [framework |-> "ISO27001", status |-> COMPLIANT, score |-> 90, issues |-> <<>>,
     controls_checked |-> <<"access_control", "incident_management", "risk_assessment">>]

\* ComplianceService._check_generic_compliance
check_generic_compliance(data) ==
    [framework |-> "generic", status |-> PENDING_REVIEW, score |-> 50,
     issues |-> <<>>, controls_checked |-> <<"basic_controls">>]

\* ComplianceService._check_framework_compliance
check_framework_compliance(data, framework) ==
    CASE framework = "SOX" -> check_sox_compliance(data)
      [] framework = "GDPR" -> check_gdpr_compliance(data)
      [] framework = "ISO27001" -> check_iso27001_compliance(data)
      [] OTHER -> check_generic_compliance(data)

\* A compliance_score is total_score / count, kept as the pair (both in
\* hundredths: num/den is the score); 0.0 is 0/100.
ScoreAtLeast(score, hundredths) == score.num * 100 >= hundredths * score.den

\* Mutant of _determine_overall_status: the thresholds are exclusive.
determine_overall_status_exclusive(compliance_score) ==
    IF compliance_score.num * 100 > 90 * compliance_score.den THEN COMPLIANT
    ELSE IF compliance_score.num * 100 > 70 * compliance_score.den
         THEN PARTIALLY_COMPLIANT
    ELSE NON_COMPLIANT

\* ComplianceService._determine_overall_status
determine_overall_status(compliance_score) ==
    IF ScoreAtLeast(compliance_score, 90) THEN COMPLIANT
    ELSE IF ScoreAtLeast(compliance_score, 70) THEN PARTIALLY_COMPLIANT
    ELSE NON_COMPLIANT

\* Mutant of _generate_compliance_recommendations: a score of exactly 0.80
\* gets the recommendations too.
generate_compliance_recommendations_inclusive(compliance_results) ==
    IF compliance_results.compliance_score.num * 100
            <= 80 * compliance_results.compliance_score.den
    THEN <<"Implement additional security controls",
           "Enhance documentation processes",
           "Conduct regular compliance training">>
    ELSE <<>>

\* ComplianceService._generate_compliance_recommendations
generate_compliance_recommendations(compliance_results) ==
    IF ~ScoreAtLeast(compliance_results.compliance_score, 80)
    THEN <<"Implement additional security controls",
           "Enhance documentation processes",
           "Conduct regular compliance training">>
    ELSE <<>>

\* dict[key] = value
DictSet(d, key, value) ==
    [k \in DOMAIN d \cup {key} |-> IF k = key THEN value ELSE d[k]]

\* Mutant of the loop over the frameworks: an unsupported framework is
\* checked like any other instead of being skipped.
RECURSIVE FrameworkLoop_no_skip(_, _, _)
FrameworkLoop_no_skip(data, frameworks, acc) ==
    IF frameworks = <<>> THEN acc
    ELSE LET framework_result == check_framework_compliance(data, Head(frameworks))
         IN  FrameworkLoop_no_skip(data, Tail(frameworks),
                [framework_results |->
                    DictSet(acc.framework_results, Head(frameworks), framework_result),
                 total_score |-> acc.total_score + framework_result.score])

\* ComplianceService.check_compliance, the loop over the frameworks: acc is
\* the framework_results dict and the total_score so far.
RECURSIVE FrameworkLoop(_, _, _)
FrameworkLoop(data, frameworks, acc) ==
    IF frameworks = <<>> THEN acc
    ELSE LET framework == Head(frameworks)
         IN  IF framework \notin SupportedFrameworks
             THEN FrameworkLoop(data, Tail(frameworks), acc)
             ELSE LET framework_result == check_framework_compliance(data, framework)
                  IN  FrameworkLoop(data, Tail(frameworks),
                        [framework_results |->
                            DictSet(acc.framework_results, framework, framework_result),
                         total_score |-> acc.total_score + framework_result.score])

\* Mutant of "frameworks or default_frameworks": only None is replaced by
\* the default, an empty list is kept.
EffectiveFrameworks_none_only(frameworks, cfg) ==
    IF frameworks.isNone
    THEN DictGet(cfg, "default_frameworks", <<"SOX">>)
    ELSE frameworks.v

\* ComplianceService.check_compliance, "frameworks or default_frameworks"
EffectiveFrameworks(frameworks, cfg) ==
    IF frameworks.isNone \/ frameworks.v = <<>>
    THEN DictGet(cfg, "default_frameworks", <<"SOX">>)
    ELSE frameworks.v

\* ComplianceService.check_compliance, the result computed on a cache miss
ComputeCompliance(data, frameworks, t) ==
    LET loop == FrameworkLoop(data, frameworks,
                    [framework_results |-> EmptyDict, total_score |-> 0])
        count == Cardinality(DOMAIN loop.framework_results)
        compliance_score ==
            IF count # 0 THEN [num |-> loop.total_score, den |-> 100 * count]
            ELSE [num |-> 0, den |-> 100]
        scored == [overall_status |-> determine_overall_status(compliance_score),
                   checked_at |-> t,
                   frameworks_checked |-> frameworks,
                   framework_results |-> loop.framework_results,
                   issues |-> <<>>,
                   recommendations |-> <<>>,
                   compliance_score |-> compliance_score]
    IN  [scored EXCEPT !.recommendations = generate_compliance_recommendations(scored)]

\* ComplianceService.check_compliance, the body of its try block: what it
\* raises or returns, the cache it leaves, and whether the result was cached.
CheckComplianceTry(data, frameworksArg, cfg, cache, t) ==
    LET frameworks == EffectiveFrameworks(frameworksArg, cfg)
        cache_key == generate_cache_key(data, frameworks)
    IN  IF cache_key.exc # "none"
        THEN [exc |-> cache_key.exc, ret |-> EmptyDict, cache |-> cache,
              cache_key |-> EmptyDict, from_cache |-> FALSE]
        ELSE IF /\ CacheTruthy(cache)
                /\ cache_key.val \in DOMAIN cache.items
                /\ is_cache_valid(cache.items[cache_key.val], cfg, t)
        THEN [exc |-> "none", ret |-> cache.items[cache_key.val]["result"],
              cache |-> cache, cache_key |-> cache_key.val, from_cache |-> TRUE]
        ELSE LET compliance_results == ComputeCompliance(data, frameworks, t)
             IN  [exc |-> "none", ret |-> compliance_results,
                  cache |-> IF CacheTruthy(cache)
                            THEN DictCache(DictSet(cache.items, cache_key.val,
                                    [result |-> compliance_results, cached_at |-> t]))
                            ELSE cache,
                  cache_key |-> cache_key.val, from_cache |-> FALSE]

\* Mutant of the except clause: the failure is re-raised as it is.
ComplianceExcept_reraise(e) == e

\* ComplianceService.check_compliance, "except Exception as e: raise
\* ComplianceServiceError(...)": the type the caller sees for a failure e.
ComplianceExcept(e) == "ComplianceServiceError"

\* ComplianceService.check_compliance
check_compliance(data, frameworksArg, cfg, cache, t) ==
    LET r == CheckComplianceTry(data, frameworksArg, cfg, cache, t)
    IN  IF r.exc = "none" THEN r
        ELSE [r EXCEPT !.exc = ComplianceExcept(r.exc)]

\* ----------------------------------------------------- NotificationService
\* NotificationChannel
NotificationChannels == {"email", "sms", "slack", "in_app", "webhook"}

\* A channel name that is not a NotificationChannel.
UnknownChannel == "pager"

\* NotificationService._get_default_config
NotificationDefaultConfig ==
    [email |-> [enabled |-> TRUE, smtp_server |-> "localhost", smtp_port |-> 587,
                use_tls |-> TRUE, sender_email |-> "audit@company.com",
                sender_name |-> "Audit System"],
     sms |-> [enabled |-> FALSE, provider |-> "twilio",
              sender_number |-> "+1234567890"],
     slack |-> [enabled |-> FALSE, webhook_url |-> "None",
                default_channel |-> "#audit-alerts"],
     in_app |-> [enabled |-> TRUE, retention_days |-> 30],
     webhook |-> [enabled |-> FALSE, endpoints |-> <<>>],
     retry |-> [max_attempts |-> 3, backoff_factor |-> 2,
                initial_delay_seconds |-> 1]]

\* The config arguments the constructor is given (EmptyDict: None or {}):
\* the default, one that enables every channel and one more that has no
\* handler, and a sparse one.
NotificationConfigArgs ==
    {EmptyDict,
     [email |-> [enabled |-> TRUE],
      sms |-> [enabled |-> TRUE],
      slack |-> [enabled |-> TRUE, default_channel |-> "#audit-alerts"],
      in_app |-> [enabled |-> TRUE],
      webhook |-> [enabled |-> TRUE, endpoints |-> <<"https://hooks/audit">>],
      pager |-> [enabled |-> TRUE],
      retry |-> [max_attempts |-> 3, backoff_factor |-> 2,
                 initial_delay_seconds |-> 1]],
     [slack |-> [enabled |-> TRUE],
      webhook |-> [enabled |-> TRUE],
      email |-> [smtp_server |-> "localhost"]]}

\* NotificationService.__init__: self.config
NotificationInitConfig(arg) ==
    IF DOMAIN arg = {} THEN NotificationDefaultConfig ELSE arg

\* NotificationService._get_enabled_channels (every config value is a dict)
get_enabled_channels(cfg) ==
    {channel \in DOMAIN cfg : DictGet(cfg[channel], "enabled", FALSE)}

\* Mutant of _validate_notification: an empty recipients list is accepted.
validate_notification_allows_empty(notification) ==
    IF "recipients" \notin DOMAIN notification THEN "Missing required field: recipients"
    ELSE IF "subject" \notin DOMAIN notification THEN "Missing required field: subject"
    ELSE IF "content" \notin DOMAIN notification THEN "Missing required field: content"
    ELSE "none"

\* NotificationService._validate_notification: the message of the
\* NotificationServiceError it raises, "none" when it returns.
validate_notification(notification) ==
    IF "recipients" \notin DOMAIN notification THEN "Missing required field: recipients"
    ELSE IF "subject" \notin DOMAIN notification THEN "Missing required field: subject"
    ELSE IF "content" \notin DOMAIN notification THEN "Missing required field: content"
    ELSE IF notification["recipients"] = <<>> THEN "Recipients list cannot be empty"
    ELSE "none"

\* The channel handlers.  Each has an except branch returning status
\* 'failed'; it is taken only when len() of the recipients or endpoints
\* raises, which it does not for the lists the callers pass.
\* NotificationService._send_email
send_email(notification, cfg, t) ==
    [status |-> "success", sent_count |-> Len(notification["recipients"]),
     sent_at |-> t]

\* NotificationService._send_sms
send_sms(notification, cfg, t) ==
    [status |-> "success", sent_count |-> Len(notification["recipients"]),
     sent_at |-> t]

\* NotificationService._send_slack
send_slack(notification, cfg, t) ==
    LET slack_config == DictGet(cfg, "slack", EmptyDict)
    IN  [status |-> "success",
         channel |-> DictGet(slack_config, "default_channel", "None"),
         sent_at |-> t]

\* NotificationService._send_in_app
send_in_app(notification, cfg, t) ==
    [status |-> "success", stored_count |-> Len(notification["recipients"]),
     stored_at |-> t]

\* Mutant of _send_webhook: posting to an empty endpoint list fails.
send_webhook_needs_endpoint(notification, cfg, t) ==
    LET webhook_config == DictGet(cfg, "webhook", EmptyDict)
        endpoints == DictGet(webhook_config, "endpoints", <<>>)
    IN  IF endpoints = <<>>
        THEN [status |-> "failed", error |-> "no endpoints"]
        ELSE [status |-> "success", endpoints_notified |-> Len(endpoints),
              sent_at |-> t]

\* NotificationService._send_webhook
send_webhook(notification, cfg, t) ==
    LET webhook_config == DictGet(cfg, "webhook", EmptyDict)
    IN  [status |-> "success",
         endpoints_notified |-> Len(DictGet(webhook_config, "endpoints", <<>>)),
         sent_at |-> t]

\* NotificationService._send_via_channel
send_via_channel(notification, channel, cfg, t) ==
    CASE channel = "email" -> [exc |-> "none", val |-> send_email(notification, cfg, t)]
      [] channel = "sms" -> [exc |-> "none", val |-> send_sms(notification, cfg, t)]
      [] channel = "slack" -> [exc |-> "none", val |-> send_slack(notification, cfg, t)]
      [] channel = "in_app" -> [exc |-> "none", val |-> send_in_app(notification, cfg, t)]
      [] channel = "webhook" -> [exc |-> "none", val |-> send_webhook(notification, cfg, t)]
      [] OTHER -> [exc |-> "NotificationServiceError",
                   val |-> <<"Unsupported notification channel", channel>>]

\* Mutant of the per-channel try/except: a failed send is repeated up to
\* retry.max_attempts times.
SendOnce_retry(notification, channel, cfg, t) ==
    LET r == send_via_channel(notification, channel, cfg, t)
    IN  IF r.exc = "none" THEN [result |-> r.val, invocations |-> 1]
        ELSE [result |-> [status |-> "failed", error |-> r.val],
              invocations |-> DictGet(DictGet(cfg, "retry", EmptyDict),
                                      "max_attempts", 3)]

\* NotificationService.send_notification, the try/except around one enabled
\* channel: the result recorded for it and how many times _send_via_channel
\* was invoked.
SendOnce(notification, channel, cfg, t) ==
    LET r == send_via_channel(notification, channel, cfg, t)
    IN  IF r.exc = "none" THEN [result |-> r.val, invocations |-> 1]
        ELSE [result |-> [status |-> "failed", error |-> r.val],
              invocations |-> 1]

\* NotificationService.send_notification, the loop over the channels: acc is
\* the results dict and, per entry of the list, the invocations made for it.
RECURSIVE ChannelLoop(_, _, _, _, _, _)
ChannelLoop(notification, channels, cfg, enabled, t, acc) ==
    IF channels = <<>> THEN acc
    ELSE LET channel == Head(channels)
         IN  IF channel \notin enabled
             THEN ChannelLoop(notification, Tail(channels), cfg, enabled, t,
                    [results |-> DictSet(acc.results, channel,
                                    [status |-> "disabled",
                                     message |-> "Channel not enabled"]),
                     invocations |-> Append(acc.invocations, 0)])
             ELSE LET sent == SendOnce(notification, channel, cfg, t)
                  IN  ChannelLoop(notification, Tail(channels), cfg, enabled, t,
                        [results |-> DictSet(acc.results, channel, sent.result),
                         invocations |-> Append(acc.invocations, sent.invocations)])

\* NotificationService.send_notification, "except Exception as e: raise
\* NotificationServiceError(...)"
NotificationExcept(e) == "NotificationServiceError"

\* NotificationService.send_notification: what it raises or returns, the
\* caller's notification dict as the call leaves it, the sent_notifications
\* it leaves, and the invocations of _send_via_channel per channel entry.
send_notification(notification, cfg, sent_notifs, t) ==
    LET invalid == validate_notification(notification)
    IN  IF invalid # "none"
        THEN [exc |-> NotificationExcept("NotificationServiceError"),
              ret |-> EmptyDict, notification |-> notification,
              sent_notifications |-> sent_notifs, invocations |-> <<>>]
        ELSE LET pending == DictSet(DictSet(DictSet(notification,
                                "id", <<"notif", t>>), "created_at", t),
                                "status", "pending")
                 channels == DictGet(pending, "channels", <<>>)
                 loop == ChannelLoop(pending, channels, cfg,
                            get_enabled_channels(cfg), t,
                            [results |-> EmptyDict, invocations |-> <<>>])
                 status == IF \E c \in DOMAIN loop.results :
                                  loop.results[c].status = "success"
                           THEN "sent" ELSE "failed"
                 done == DictSet(DictSet(DictSet(pending, "status", status),
                                "results", loop.results), "sent_at", t)
             IN  [exc |-> "none", ret |-> done, notification |-> done,
                  sent_notifications |-> Append(sent_notifs, done),
                  invocations |-> loop.invocations]

\* --------------------------------------------------------------- AIService
\* A document content is a str; the model keeps its length.
len(content) == content.length

Max(a, b) == IF a >= b THEN a ELSE b
Min(a, b) == IF a <= b THEN a ELSE b

\* Mutant of _calculate_risk_score: the base score is not clamped.
calculate_risk_score_unclamped(content) == len(content) % 100

\* Mutant of _calculate_risk_score: the score is capped at 0.95 but has no
\* floor of 0.1.
calculate_risk_score_no_floor(content) == Min(len(content) % 100, 95)

\* AIService._calculate_risk_score, in hundredths
calculate_risk_score(content) ==
    LET base_score == len(content) % 100
    IN  Min(Max(base_score, 10), 95)

\* AIService._extract_key_findings
extract_key_findings(content) ==
    <<"Key financial metrics identified", "Potential compliance gaps detected",
      "Process improvements recommended">>

\* AIService._generate_recommendations
generate_recommendations(content) ==
    <<"Enhance documentation processes", "Implement additional controls",
      "Review current procedures">>

\* AIService.analyze_document (nothing in its try block raises for a str)
analyze_document(document_content, document_type, t) ==
    [document_type |-> document_type,
     analyzed_at |-> t,
     key_findings |-> extract_key_findings(document_content),
     risk_score |-> calculate_risk_score(document_content),
     recommendations |-> generate_recommendations(document_content),
     confidence |-> 85]

\* ------------------------------------------------- AuditLog, log_audit_event
\* AuditLog.__init__ and AuditLog.log_event: the row db.session.commit()
\* stores, with the id and timestamp the column defaults give it.
log_event(fields, orm, supa, t) ==
    LET log == [k \in DOMAIN fields \cup {"id", "timestamp"} |->
                    CASE k = "id" -> Len(orm) + 1
                      [] k = "timestamp" -> t
                      [] OTHER -> fields[k]]
    IN  [orm |-> Append(orm, log), supabase |-> supa, ret |-> log]

\* Mutant of log_audit_event: the row is also written to the ORM store.
log_audit_event_mirrored(data, orm, supa) ==
    [orm |-> Append(orm, data), supabase |-> Append(supa, data), ret |-> <<data>>]

\* log_audit_event: the row supabase.table("audit_logs").insert(data) stores
log_audit_event(data, orm, supa) ==
    [orm |-> orm, supabase |-> Append(supa, data), ret |-> <<data>>]

\* --------------------------------------------------------------------- Log
\* A str is the sequence of its characters.  The letters the level names are
\* written with, lower case and upper case at the same index.
LowerLetters == <<"e", "f", "i", "n", "o", "r">>
UpperLetters == <<"E", "F", "I", "N", "O", "R">>

\* The upper case of one character: of a lower-case letter its capital, of
\* anything else the character itself.
upper_char(c) ==
    IF \E i \in 1..Len(LowerLetters) : LowerLetters[i] = c
    THEN UpperLetters[IndexFrom(LowerLetters, c, 1)]
    ELSE c

\* str.upper()
str_upper(s) == [i \in 1..Len(s) |-> upper_char(s[i])]

\* Mutant of Log.__init__: the level is stored as it was given.
Log_init_verbatim(level, module, message) ==
    [level |-> level, module |-> module, message |-> message,
     stack_trace |-> "None", request_id |-> "None", additional_data |-> "None"]

\* Log.__init__ (stack_trace, request_id and additional_data left at None)
Log_init(level, module, message) ==
    [level |-> str_upper(level), module |-> module, message |-> message,
     stack_trace |-> "None", request_id |-> "None", additional_data |-> "None"]

\* Log.log: the entry is constructed, added and committed; the commit gives
\* it the next id and the timestamp default, datetime.utcnow.
log(level, module, message, rows, t) ==
    LET entry == Log_init(level, module, message)
        log_entry == [k \in DOMAIN entry \cup {"id", "timestamp"} |->
                        CASE k = "id" -> Len(rows) + 1
                          [] k = "timestamp" -> t
                          [] OTHER -> entry[k]]
    IN  [rows |-> Append(rows, log_entry), ret |-> log_entry]

\* Log.get_logs_by_level: filter_by(level=level.upper()), order_by timestamp
\* descending, limit(limit).  The database leaves the order of rows with
\* equal timestamps open: the operator gives the set of the lists the query
\* may return.
get_logs_by_level(level, limit, rows) ==
    LET matching == {i \in 1..Len(rows) : rows[i]["level"] = str_upper(level)}
        n == Cardinality(matching)
        orderings ==
            {p \in [1..n -> matching] :
                /\ \A a, b \in 1..n : a # b => p[a] # p[b]
                /\ \A a, b \in 1..n :
                      a < b => rows[p[a]]["timestamp"] >= rows[p[b]]["timestamp"]}
    IN  {[k \in 1..Min(limit, n) |-> rows[p[k]]] : p \in orderings}

\* ------------------------------------------------------------------ inputs
SeqsUpTo(S, n) == UNION {[1..k -> S] : k \in 0..n}

\* Every framework name is asked for alone; the longer lists are over
\* fixed-score frameworks, one generic-score framework and the unsupported one.
ListedTogether == {"SOX", "GDPR", "ISO27001", "HIPAA", UnsupportedFramework}

\* None, the empty list and every framework name alone.
ShortFrameworksArgs ==
    {NoneArg} \cup {ListArg(s) : s \in SeqsUpTo(FrameworkNames, 1)}

FrameworksArgs ==
    ShortFrameworksArgs
        \cup {ListArg(s) : s \in SeqsUpTo(ListedTogether, MaxFrameworks)}

\* The (data, frameworks) arguments of check_compliance: every data with the
\* short arguments, and one data with the longer lists.
CheckArgs ==
    (DataValues \X ShortFrameworksArgs)
        \cup ({[content |-> 1, json_serialisable |-> TRUE]} \X FrameworksArgs)

\* The cached items _is_cache_valid is asked about: an empty dict, an item
\* without cached_at, and items cached age minutes before t.
CachedItems(t) ==
    {EmptyDict, [result |-> EmptyDict]}
        \cup {[result |-> EmptyDict, cached_at |-> t - age] : age \in 0..MaxAge}

\* A notification dict with the given keys present.
MakeNotification(keys, recipients, channels) ==
    [k \in keys |->
        CASE k = "recipients" -> recipients
          [] k = "channels" -> channels
          [] k = "subject" -> "Audit Alert: access review"
          [] k = "content" -> "AUDIT ALERT"]

RequiredFields == {"recipients", "subject", "content"}

\* The channels lists: every channel alone, and lists (with repeats) over a
\* channel every config has a handler for and the unknown one.
ChannelLists ==
    SeqsUpTo(NotificationChannels \cup {UnknownChannel}, 1)
        \cup SeqsUpTo({"email", UnknownChannel}, MaxChannels)

\* The notifications send_notification is given: complete ones with and
\* without a channels key and with zero to two recipients, and ones that
\* lack required fields.
NotificationArgs ==
    {MakeNotification(RequiredFields \cup {"channels"}, <<"a@x">>, c) :
        c \in ChannelLists}
    \cup {MakeNotification(RequiredFields \cup {"channels"}, r, <<"email", "email">>) :
            r \in {<<>>, <<"a@x", "b@x">>}}
    \cup {MakeNotification(RequiredFields, r, <<>>) : r \in {<<>>, <<"a@x">>}}
    \cup {MakeNotification(keys \cup {"channels"}, <<"a@x">>, <<"email">>) :
            keys \in (SUBSET RequiredFields) \ {RequiredFields}}

DocumentContents == {[length |-> n] : n \in 0..MaxDocLen}

DocumentTypes == {"general", "financial"}

\* The arguments of log_event and log_audit_event; description carries the
\* text that tells one logged event from another.
AuditFields(description) ==
    {[action |-> a, resource_type |-> "report", user_id |-> 1,
      resource_id |-> "42", description |-> description, changes |-> "None",
      ip_address |-> "None", status |-> st] :
        a \in {"create", "delete"}, st \in {"success", "failure"}}

\* The level arguments: INFO and ERROR in several letter cases.
LogLevels ==
    {<<"I", "N", "F", "O">>, <<"i", "n", "f", "o">>, <<"I", "n", "f", "o">>,
     <<"e", "R", "R", "o", "r">>}

LogModules == {"auth"}

\* The limit arguments of get_logs_by_level
Limits == 0..MaxLimit

\* ------------------------------------------------------------------ actions
\* The state after the services are constructed with the given configs.
Construct(complianceArg, notificationArg) ==
    /\ config = ComplianceInitConfig(complianceArg)
    /\ compliance_cache = ComplianceInitCache(ComplianceInitConfig(complianceArg))
    /\ notification_config = NotificationInitConfig(notificationArg)
    /\ notification_queue = <<>>
    /\ sent_notifications = <<>>
    /\ orm_audit_logs = <<>>
    /\ supabase_audit_logs = <<>>
    /\ system_logs = <<>>
    /\ now = 0
    /\ last = [op |-> "init"]

InitCompliance == \E arg \in ComplianceConfigArgs : Construct(arg, EmptyDict)

InitNotification == \E arg \in NotificationConfigArgs : Construct(EmptyDict, arg)

InitDefault == Construct(EmptyDict, EmptyDict)

\* The clock advances.
Tick ==
    /\ now < MaxTime
    /\ now' = now + 1
    /\ UNCHANGED <<complianceVars, notificationVars, auditVars, logVars, last>>

\* A call of ComplianceService.check_compliance(data, frameworks)
CheckCompliance(data, frameworksArg) ==
    \E r \in {check_compliance(data, frameworksArg, config, compliance_cache, now)} :
        /\ compliance_cache' = r.cache
        /\ last' = [op |-> "check_compliance", data |-> data,
                    frameworks |-> frameworksArg, at |-> now,
                    exc |-> r.exc, ret |-> r.ret, cache_key |-> r.cache_key,
                    from_cache |-> r.from_cache,
                    cache_before |-> compliance_cache]
        /\ UNCHANGED <<config, notificationVars, auditVars, logVars, now>>

CheckComplianceCall ==
    \E args \in CheckArgs : CheckCompliance(args[1], args[2])

\* A call of ComplianceService._is_cache_valid(cached_item)
IsCacheValid(cached_item) ==
    /\ last' = [op |-> "is_cache_valid", cached_item |-> cached_item, at |-> now,
                ret |-> is_cache_valid(cached_item, config, now)]
    /\ UNCHANGED <<complianceVars, notificationVars, auditVars, logVars, now>>

IsCacheValidCall == \E cached_item \in CachedItems(now) : IsCacheValid(cached_item)

\* A call of NotificationService.send_notification(notification)
SendNotification(notification) ==
    \E r \in {send_notification(notification, notification_config,
                                 sent_notifications, now)} :
        /\ Len(r.sent_notifications) <= MaxSent
        /\ sent_notifications' = r.sent_notifications
        /\ last' = [op |-> "send_notification", notification |-> notification,
                    exc |-> r.exc, ret |-> r.ret,
                    notification_after |-> r.notification,
                    invocations |-> r.invocations,
                    sent_before |-> sent_notifications]
        /\ UNCHANGED <<notification_config, notification_queue, complianceVars,
                       auditVars, logVars, now>>

SendNotificationCall ==
    \E notification \in NotificationArgs : SendNotification(notification)

\* A call of AIService.analyze_document(document_content, document_type)
AnalyzeDocument(document_content, document_type) ==
    /\ last' = [op |-> "analyze_document", document_content |-> document_content,
                document_type |-> document_type, exc |-> "none",
                ret |-> analyze_document(document_content, document_type, now)]
    /\ UNCHANGED <<complianceVars, notificationVars, auditVars, logVars, now>>

AnalyzeDocumentCall ==
    \E document_content \in DocumentContents, document_type \in DocumentTypes :
        AnalyzeDocument(document_content, document_type)

\* The description of the next event to be logged.
NextEvent == <<"event", Len(orm_audit_logs) + Len(supabase_audit_logs) + 1>>

\* A call of AuditLog.log_event(...)
LogEvent(fields) ==
    \E r \in {log_event(fields, orm_audit_logs, supabase_audit_logs, now)} :
        /\ Len(orm_audit_logs) + Len(supabase_audit_logs) < MaxRows
        /\ orm_audit_logs' = r.orm
        /\ supabase_audit_logs' = r.supabase
        /\ last' = [op |-> "log_event", fields |-> fields, ret |-> r.ret,
                    orm_before |-> orm_audit_logs,
                    supabase_before |-> supabase_audit_logs]
        /\ UNCHANGED <<complianceVars, notificationVars, logVars, now>>

LogEventCall == \E fields \in AuditFields(NextEvent) : LogEvent(fields)

\* A call of log_audit_event(...)
LogAuditEvent(fields) ==
    \E r \in {log_audit_event(fields, orm_audit_logs, supabase_audit_logs)} :
        /\ Len(orm_audit_logs) + Len(supabase_audit_logs) < MaxRows
        /\ orm_audit_logs' = r.orm
        /\ supabase_audit_logs' = r.supabase
        /\ last' = [op |-> "log_audit_event", fields |-> fields, ret |-> r.ret,
                    orm_before |-> orm_audit_logs,
                    supabase_before |-> supabase_audit_logs]
        /\ UNCHANGED <<complianceVars, notificationVars, logVars, now>>

LogAuditEventCall == \E fields \in AuditFields(NextEvent) : LogAuditEvent(fields)

\* A call of Log.log(level, module, message)
LogLog(level, module, message) ==
    \E r \in {log(level, module, message, system_logs, now)} :
        /\ Len(system_logs) < MaxLogs
        /\ system_logs' = r.rows
        /\ last' = [op |-> "log", level |-> level, ret |-> r.ret,
                    logs_before |-> system_logs]
        /\ UNCHANGED <<complianceVars, notificationVars, auditVars, now>>

LogLogCall ==
    \E level \in LogLevels, module \in LogModules :
        LogLog(level, module, <<"message", Len(system_logs) + 1>>)

\* A call of Log.get_logs_by_level(level, limit)
GetLogsByLevel(level, limit) ==
    \E ret \in get_logs_by_level(level, limit, system_logs) :
        /\ last' = [op |-> "get_logs_by_level", level |-> level,
                    limit |-> limit, ret |-> ret]
        /\ UNCHANGED <<complianceVars, notificationVars, auditVars, logVars, now>>

GetLogsByLevelCall ==
    \E level \in LogLevels, limit \in Limits : GetLogsByLevel(level, limit)

\* ---------------------------------------------------------- specifications
NextCompliance == Tick \/ CheckComplianceCall \/ IsCacheValidCall

SpecCompliance == InitCompliance /\ [][NextCompliance]_vars

NextNotification == SendNotificationCall

SpecNotification == InitNotification /\ [][NextNotification]_vars

NextAI == AnalyzeDocumentCall

SpecAI == InitDefault /\ [][NextAI]_vars

NextAudit == LogEventCall \/ LogAuditEventCall

SpecAudit == InitDefault /\ [][NextAudit]_vars

NextLog == Tick \/ LogLogCall \/ GetLogsByLevelCall

SpecLog == InitDefault /\ [][NextLog]_vars

\* ================================================================== claims
\* The TTL the service applies: cache_ttl_minutes, 60 when not configured.
ConfiguredTtl == IF "cache_ttl_minutes" \in DOMAIN config
                 THEN config["cache_ttl_minutes"] ELSE 60

IsCheck == last.op = "check_compliance"
CheckReturned == IsCheck /\ last.exc = "none"

\* The rearrangements of a list.
PermsOf(s) ==
    {[i \in 1..Len(s) |-> s[f[i]]] : f \in Permutations(1..Len(s))}

\* C1: with caching enabled, a check_compliance call that repeats the data
\* and the frameworks of the previous call, made before cache_ttl_minutes
\* have passed since that call's result was computed, returns that same
\* result (same checked_at) instead of a new one.
C1_RepeatedCallReturnsCachedResult ==
    [][( /\ CacheResults(config)
         /\ CheckReturned
         /\ last'.op = "check_compliance"
         /\ last'.data = last.data
         /\ last'.frameworks = last.frameworks
         /\ last'.at - last.ret.checked_at < ConfiguredTtl )
       => /\ last'.exc = "none"
          /\ last'.ret = last.ret
          /\ last'.ret.checked_at = last.ret.checked_at]_vars

\* C6: the per-framework result does not depend on the data: SOX is 0.85
\* compliant, GDPR 0.75 partially_compliant, ISO27001 0.90 compliant, every
\* other supported framework 0.50 pending_review.
C6_FixedFrameworkResults ==
    CheckReturned =>
        \A f \in DOMAIN last.ret.framework_results :
            LET r == last.ret.framework_results[f]
            IN  CASE f = "SOX" -> r.score = 85 /\ r.status = "compliant"
                  [] f = "GDPR" -> r.score = 75 /\ r.status = "partially_compliant"
                  [] f = "ISO27001" -> r.score = 90 /\ r.status = "compliant"
                  [] OTHER -> /\ f \in {"HIPAA", "PCI_DSS", "SOC2", "NIST", "COBIT"}
                              /\ r.score = 50 /\ r.status = "pending_review"

C6_Witness ==
    /\ CheckReturned
    /\ last.data.content = 2
    /\ DOMAIN last.ret.framework_results = {"HIPAA"}

\* C7: _is_cache_valid is true exactly for an item that has a cached_at
\* whose age is strictly below the TTL (60 when not configured), false at
\* the TTL and beyond, false for an empty item or one without cached_at;
\* and check_compliance never returns a cached entry whose age has reached
\* the TTL.
C7_CacheValidBelowTtl ==
    /\ last.op = "is_cache_valid" =>
         IF "cached_at" \in DOMAIN last.cached_item
         THEN last.ret <=> (last.at - last.cached_item["cached_at"] < ConfiguredTtl)
         ELSE last.ret = FALSE
    /\ (IsCheck /\ last.from_cache) => last.at - last.ret.checked_at < ConfiguredTtl

C7_Witness ==
    /\ last.op = "is_cache_valid"
    /\ "cache_ttl_minutes" \notin DOMAIN config
    /\ "cached_at" \in DOMAIN last.cached_item
    /\ last.at - last.cached_item["cached_at"] = 60
    /\ last.ret = FALSE

\* C8: the cache key does not depend on the order of the frameworks: every
\* rearrangement of the frameworks of a call gets the key the call used,
\* and a call that repeats the data and frameworks of the previous call
\* uses the same key.
C8_KeyIgnoresFrameworkOrder ==
    /\ [](CheckReturned =>
            \A p \in PermsOf(EffectiveFrameworks(last.frameworks, config)) :
                generate_cache_key(last.data, p) =
                    [exc |-> "none", val |-> last.cache_key])
    /\ [][( /\ CheckReturned
            /\ last'.op = "check_compliance"
            /\ last'.data = last.data
            /\ last'.frameworks = last.frameworks )
          => last'.cache_key = last.cache_key]_vars

C8_Witness ==
    /\ CheckReturned
    /\ last.frameworks = ListArg(<<"SOX", "GDPR">>)
    /\ last.cache_key.md5.frameworks = <<"GDPR", "SOX">>

\* C10: a failure inside check_compliance reaches the caller as
\* ComplianceServiceError, never as another exception type, and the failed
\* call leaves the compliance cache as it was.
C10_FailuresAreComplianceServiceError ==
    IsCheck =>
        /\ last.exc \in {"none", "ComplianceServiceError"}
        /\ last.exc # "none" => compliance_cache = last.cache_before

C10_Witness ==
    /\ IsCheck
    /\ ~last.data.json_serialisable
    /\ last.exc = "ComplianceServiceError"

IsSend == last.op = "send_notification"
SendReturned == IsSend /\ last.exc = "none"

C3_RiskScoreIsLengthMod100 ==
    last.op = "analyze_document" =>
        last.ret.risk_score = last.document_content.length % 100

\* C3 as amended: the risk_score is (len mod 100) / 100 kept within
\* [0.1, 0.95]: 0.1 when len mod 100 is below 10, 0.95 when it is above 95.
C3_RiskScoreIsClampedLengthMod100 ==
    last.op = "analyze_document" =>
        LET m == last.document_content.length % 100
        IN  last.ret.risk_score =
                IF m < 10 THEN 10 ELSE IF m > 95 THEN 95 ELSE m

C3_Witness ==
    /\ last.op = "analyze_document"
    /\ last.document_content.length = 103
    /\ last.ret.risk_score = 10

\* The descriptions (event texts) of the rows of a store.
Descriptions(rows) == {rows[i]["description"] : i \in 1..Len(rows)}

\* C4: a log_event call adds exactly one row to the ORM store and leaves the
\* Supabase store as it was; a log_audit_event call adds exactly one row to
\* the Supabase store and leaves the ORM store as it was; no event is in
\* both stores.
C4_StoresAreSeparate ==
    /\ last.op = "log_event" =>
         /\ orm_audit_logs = Append(last.orm_before, last.ret)
         /\ last.ret["description"] = last.fields["description"]
         /\ supabase_audit_logs = last.supabase_before
    /\ last.op = "log_audit_event" =>
         /\ supabase_audit_logs = Append(last.supabase_before, last.fields)
         /\ orm_audit_logs = last.orm_before
    /\ Descriptions(orm_audit_logs) \cap Descriptions(supabase_audit_logs) = {}
    /\ Cardinality(Descriptions(orm_audit_logs)) = Len(orm_audit_logs)
    /\ Cardinality(Descriptions(supabase_audit_logs)) = Len(supabase_audit_logs)

C4_Witness ==
    /\ last.op = "log_audit_event"
    /\ Len(orm_audit_logs) = 1
    /\ Len(supabase_audit_logs) = 2

C9_InvalidNotificationRejected ==
    IsSend =>
        LET n == last.notification
        IN  ( \/ \E field \in {"recipients", "subject", "content"} :
                    field \notin DOMAIN n
              \/ n["recipients"] = <<>> )
            => /\ last.exc = "NotificationServiceError"
               /\ sent_notifications = last.sent_before
               /\ last.invocations = <<>>
               /\ last.notification_after = n
               /\ {"id", "status", "results"} \cap DOMAIN last.notification_after = {}

C9_Witness ==
    /\ IsSend
    /\ DOMAIN last.notification = {"recipients", "subject", "content", "channels"}
    /\ last.notification["recipients"] = <<>>
    /\ last.exc = "NotificationServiceError"
    /\ sent_notifications # <<>>

\* C11: for every document content, the empty string included, the
\* risk_score analyze_document returns lies between 0.1 and 0.95 inclusive.
C11_RiskScoreWithinBounds ==
    last.op = "analyze_document" =>
        /\ last.exc = "none"
        /\ 10 <= last.ret.risk_score
        /\ last.ret.risk_score <= 95

C11_Witness ==
    /\ last.op = "analyze_document"
    /\ last.document_content.length = 0
    /\ last.ret.risk_score = 10

\* The two level names in upper case, written out.
INFO == <<"I", "N", "F", "O">>
ERROR == <<"E", "R", "R", "O", "R">>

\* The upper-cased form of a level argument, read off the argument's length
\* (the arguments are spellings of INFO and ERROR).
UpperCased(level) == IF Len(level) = 4 THEN INFO ELSE ERROR

\* The rows of system_logs whose level matches the argument whatever its case.
MatchingLogs(level) ==
    {i \in 1..Len(system_logs) : system_logs[i]["level"] = UpperCased(level)}

\* C12: Log.log stores the entry with the upper-cased level whatever the
\* case it was given in; get_logs_by_level(level, limit) with any casing
\* returns only stored entries whose level is the upper-cased argument, each
\* once, at most limit of them (all of them when there are fewer), newest
\* timestamp first, and never leaves out an entry newer than one it returns.
C12_LevelsMatchCaseInsensitively ==
    /\ \A i \in 1..Len(system_logs) : system_logs[i]["level"] \in {INFO, ERROR}
    /\ last.op = "log" =>
         /\ last.ret["level"] = UpperCased(last.level)
         /\ system_logs = Append(last.logs_before, last.ret)
    /\ last.op = "get_logs_by_level" =>
         LET ret == last.ret
             returned == {ret[k]["id"] : k \in 1..Len(ret)}
         IN  /\ \A k \in 1..Len(ret) :
                   /\ ret[k]["level"] = UpperCased(last.level)
                   /\ ret[k]["id"] \in MatchingLogs(last.level)
                   /\ ret[k] = system_logs[ret[k]["id"]]
             /\ Cardinality(returned) = Len(ret)
             /\ Len(ret) = Min(last.limit, Cardinality(MatchingLogs(last.level)))
             /\ \A a, b \in 1..Len(ret) :
                   a < b => ret[a]["timestamp"] >= ret[b]["timestamp"]
             /\ \A i \in MatchingLogs(last.level) \ returned :
                   \A k \in 1..Len(ret) :
                       system_logs[i]["timestamp"] <= ret[k]["timestamp"]

C12_Witness ==
    /\ last.op = "get_logs_by_level"
    /\ last.level = <<"i", "n", "f", "o">>
    /\ last.limit = 2
    /\ Len(last.ret) = 2
    /\ last.ret[1]["timestamp"] > last.ret[2]["timestamp"]
    /\ Cardinality(MatchingLogs(last.level)) = 3

\* The elements of a list.
Elements(s) == {s[i] : i \in 1..Len(s)}

\* The frameworks a call asked for: the list it passed, or the configured
\* default_frameworks when it passed None or an empty list.
Requested == EffectiveFrameworks(last.frameworks, config)

\* C13: check_compliance skips unsupported frameworks: the keys of
\* framework_results are exactly the requested frameworks that are
\* supported, and frameworks_checked is the requested list, skipped ones
\* included.
C13_UnsupportedFrameworksSkipped ==
    CheckReturned =>
        /\ DOMAIN last.ret.framework_results =
               Elements(Requested) \cap
                   {"SOX", "GDPR", "ISO27001", "HIPAA", "PCI_DSS", "SOC2",
                    "NIST", "COBIT"}
        /\ last.ret.frameworks_checked = Requested

C13_Witness ==
    /\ CheckReturned
    /\ last.frameworks = ListArg(<<"SOX", UnsupportedFramework>>)
    /\ DOMAIN last.ret.framework_results = {"SOX"}
    /\ last.ret.frameworks_checked = <<"SOX", UnsupportedFramework>>

\* The sum of the score fields of the entries of a framework_results dict
\* under the given keys.
RECURSIVE SumScores(_, _)
SumScores(framework_results, keys) ==
    IF keys = {} THEN 0
    ELSE LET k == CHOOSE x \in keys : TRUE
         IN  framework_results[k].score + SumScores(framework_results, keys \ {k})

\* C14: for every frameworks list, the compliance_score of check_compliance
\* is the arithmetic mean of the score fields of the entries of
\* framework_results, and 0.0 when framework_results is empty.
C14_ScoreIsMeanOfFrameworkScores ==
    CheckReturned =>
        LET framework_results == last.ret.framework_results
            count == Cardinality(DOMAIN framework_results)
            score == last.ret.compliance_score
        IN  IF count = 0 THEN score.num = 0
            ELSE 100 * score.num * count =
                    SumScores(framework_results, DOMAIN framework_results) * score.den

\* C15: the overall_status of check_compliance follows from compliance_score
\* alone: compliant at 0.90 or above, partially_compliant at 0.70 or above
\* and below 0.90, non_compliant below 0.70; it is never pending_review or
\* not_applicable, and it is non_compliant when no requested framework is
\* supported.
C15_StatusFollowsScore ==
    CheckReturned =>
        LET score == last.ret.compliance_score
            status == last.ret.overall_status
        IN  /\ status = "compliant" <=> score.num * 100 >= 90 * score.den
            /\ status = "partially_compliant" <=>
                   ( /\ score.num * 100 >= 70 * score.den
                     /\ score.num * 100 < 90 * score.den )
            /\ status = "non_compliant" <=> score.num * 100 < 70 * score.den
            /\ status \notin {"pending_review", "not_applicable"}
            /\ Elements(Requested) \cap SupportedFrameworks = {}
                   => status = "non_compliant"

C15_Witness ==
    /\ CheckReturned
    /\ last.frameworks = ListArg(<<"ISO27001", "HIPAA">>)
    /\ last.ret.compliance_score = [num |-> 140, den |-> 200]
    /\ last.ret.overall_status = "partially_compliant"

\* C16: the recommendations of check_compliance are the same three fixed
\* recommendations when compliance_score is below 0.80, and the empty list
\* at 0.80 or above.
C16_RecommendationsBelowThreshold ==
    CheckReturned =>
        LET score == last.ret.compliance_score
        IN  /\ last.ret.recommendations # <<>> <=> score.num * 100 < 80 * score.den
            /\ last.ret.recommendations \in
                   {<<>>, <<"Implement additional security controls",
                            "Enhance documentation processes",
                            "Conduct regular compliance training">>}

C16_Witness ==
    /\ CheckReturned
    /\ last.frameworks = ListArg(<<"SOX", "GDPR">>)
    /\ last.ret.compliance_score = [num |-> 160, den |-> 200]
    /\ last.ret.recommendations = <<>>

\* C17: a check_compliance call with frameworks None (or omitted) or an
\* empty list checks the configured default_frameworks; under the default
\* configuration these are SOX, GDPR and ISO27001, giving three framework
\* results, overall_status partially_compliant and no recommendations.
C17_DefaultFrameworksChecked ==
    ( /\ CheckReturned
      /\ last.frameworks.isNone \/ last.frameworks.v = <<>> )
    => /\ "default_frameworks" \in DOMAIN config =>
            /\ last.ret.frameworks_checked = config["default_frameworks"]
            /\ DOMAIN last.ret.framework_results =
                   Elements(config["default_frameworks"]) \cap SupportedFrameworks
       /\ config = ComplianceDefaultConfig =>
            /\ last.ret.frameworks_checked = <<"SOX", "GDPR", "ISO27001">>
            /\ DOMAIN last.ret.framework_results = {"SOX", "GDPR", "ISO27001"}
            /\ last.ret.overall_status = "partially_compliant"
            /\ last.ret.recommendations = <<>>

C17_Witness ==
    /\ CheckReturned
    /\ last.frameworks = ListArg(<<>>)
    /\ config = ComplianceDefaultConfig
    /\ Cardinality(DOMAIN last.ret.framework_results) = 3
    /\ last.ret.overall_status = "partially_compliant"
    /\ last.ret.recommendations = <<>>

====
